---------------------------- MODULE Spec2Model ----------------------------
(***************************************************************************)
(* Article content acquisition pipeline of utils/article_fetcher.py:       *)
(* fetch_article (HTTP tier with retry, MSN redirect unwrapping, headless  *)
(* fallback), fetch_with_playwright, extract_content_from_html and the     *)
(* process-wide playwright-availability flag.                              *)
(*                                                                         *)
(* A call of fetch_article is a frame on a call stack (the MSN unwrap is a *)
(* recursive call).  One action models one step of the function: the code  *)
(* up to the recursive call, one iteration of the retry loop, the code     *)
(* after the loop, the return into the caller.                             *)
(***************************************************************************)
EXTENDS Integers, Sequences, FiniteSets, TLC

\* ------------------------------------------------------------------ constants

DEFAULT_TIMEOUT == 30
MAX_RETRIES == 2
RETRY_DELAY == 2
MIN_CONTENT_CHARS_FOR_SUCCESS == 500

\* thresholds written inline in the code
JsScriptThreshold == 20
JsMaxParagraphs == 3
JsPreviewChars == 500
MinVisibleChars == 100
ContainerMinWords == 100
MinContentChars == 200
MinContentWords == 50
PaywallMaxParagraphs == 5
JsHeavyMinChars == 1000
JsHeavyMinWords == 200
BloombergMinChars == 1000
HttpErrorFloor == 400
ServerErrorFloor == 500

\* metadata["http_status"] = None
NoStatus == 0

\* page.wait_for_timeout(2000)
ExtraWaitMs == 2000

\* depth of redirect wrapping of the URLs handed to fetch_article
MaxWrap == 1

\* threads calling check_playwright_available concurrently
MaxThreads == 3

JS_HEAVY_DOMAINS ==
  <<"coindesk.com", "msn.com", "bloomberg.com", "forbes.com", "businessinsider.com">>

paywall_indicators ==
  <<"paywall", "subscribe-wall", "subscription-required", "premium-content">>

content_selectors ==
  <<"article", "[class*=article-body]", "[class*=article-content]",
    "[class*=post-content]", "[class*=entry-content]",
    "[class*=story-body]", "[class*=story-content]",
    "[class*=main-content]", "[class*=page-content]",
    ".content", "main", "[role=main]">>

\* ------------------------------------------------------------------ helpers

Last(s) == s[Len(s)]

IsPrefix(s, t) == Len(s) <= Len(t) /\ \A i \in 1..Len(s) : s[i] = t[i]

Range(s) == {s[i] : i \in 1..Len(s)}

\* ------------------------------------------------------------------ error strings
\* An error string is a format template plus the values interpolated into it:
\* wrap is the "Content extraction failed: " prefix the callers of the
\* extractor put before its reason, a and b the interpolated numbers.

Err(text, a, b) == [wrap |-> "", text |-> text, a |-> a, b |-> b]

NoErr == Err("", 0, 0)

ExtractionFailed(reason) == [reason EXCEPT !.wrap = "Content extraction failed: "]

E403 == Err("HTTP 403 Forbidden - Site is blocking access", 403, 0)
E404 == Err("HTTP 404 Not Found - Article does not exist", 404, 0)
E429 == Err("HTTP 429 Rate Limited - Too many requests", 429, 0)
EServer(status) == Err("HTTP {status_code} Server Error", status, 0)
EUnexpectedStatus(status) == Err("HTTP {status_code} - Unexpected status", status, 0)
EEmpty == Err("Empty response - No content received", 0, 0)
EPaywall(i) == Err("Paywall detected ({detected_paywall}) - Content behind subscription", i, 0)
EInsufficient(chars) == Err("Requests fetch returned insufficient content: {char_count} chars", chars, 0)
EJsHeavyThin == Err("JS-heavy domain returned thin content", 0, 0)
ETimeout(timeout) == Err("Timeout after {timeout}s - Site too slow to respond", timeout, 0)
ESsl == Err("SSL/TLS Error - Certificate problem: {str(e)[:80]}", 0, 0)
EDns == Err("DNS Error - Domain not found", 0, 0)
ERefused == Err("Connection Refused - Server not accepting connections", 0, 0)
EConnection == Err("Connection Error: {error_str[:80]}", 0, 0)
EUnexpected == Err("Unexpected Error ({type(e).__name__}): {str(e)[:80]}", 0, 0)
EFatal == Err("Fatal Error ({type(e).__name__}): {str(e)}", 0, 0)
EPwStatus(status) == Err("HTTP {response.status} - Page returned error status", status, 0)
EPwNotInstalled == Err("Playwright not installed - cannot use headless browser", 0, 0)
EPwError == Err("Playwright error: {type(e).__name__}: {str(e)[:100]}", 0, 0)

RJsRendered(scripts, ps) ==
  Err("JavaScript-rendered page (React/Vue/etc.) - requires browser to access content ({script_count} scripts, {p_count} paragraphs)", scripts, ps)
RNoContent(chars) == Err("Page has no meaningful content (only {len(all_text)} chars of text)", chars, 0)
RShortChars(chars) == Err("Content too short ({char_count} chars, need 200+)", chars, 0)
RShortWords(words) == Err("Content too short ({word_count} words, need 50+)", words, 0)

\* the test for a JavaScript-rendered page left out: such a failure is retried
MentionsNothing(reason) == FALSE

\* "JavaScript-rendered" in content or "requires browser" in content
MentionsJsRendered(reason) ==
  reason.text = "JavaScript-rendered page (React/Vue/etc.) - requires browser to access content ({script_count} scripts, {p_count} paragraphs)"


\* ------------------------------------------------------------------ URLs
\* A URL is its netloc, cut into the tokens the code searches for, the two
\* query parameters extract_original_url_from_msn reads (each absent <<>> or
\* one value <<u>>), and whether urlparse accepts it (it raises ValueError on
\* a malformed netloc such as "http://[").

MkUrl(netloc, urlParam, originalUrlParam, valid) ==
  [netloc |-> netloc, url |-> urlParam, originalUrl |-> originalUrlParam, valid |-> valid]

PlainUrl(netloc) == MkUrl(netloc, <<>>, <<>>, TRUE)

MsnHost == <<"www.", "MSN.com">>

BaseUrls ==
  { PlainUrl(<<"example.com">>),
    PlainUrl(<<"www.", "forbes.com">>),
    PlainUrl(<<"www.", "bloomberg.com">>),
    PlainUrl(MsnHost),
    MkUrl(<<"[">>, <<>>, <<>>, FALSE) }

RECURSIVE Urls(_)
Urls(depth) ==
  IF depth = 0 THEN BaseUrls
  ELSE LET inner == Urls(depth - 1)
       IN  inner
           \cup { MkUrl(MsnHost, <<u>>, <<>>, TRUE) : u \in inner }
           \cup { MkUrl(MsnHost, <<>>, <<u>>, TRUE) : u \in {PlainUrl(<<"example.com">>)} }
           \cup { MkUrl(MsnHost, <<u>>, <<PlainUrl(<<"www.", "bloomberg.com">>)>>, TRUE) :
                    u \in {PlainUrl(<<"example.com">>)} }

\* str.lower() on the tokens of a netloc
LowerToken(t) == IF t = "MSN.com" THEN "msn.com" ELSE t

Lower(netloc) == [i \in 1..Len(netloc) |-> LowerToken(netloc[i])]

\* needle in haystack, for a needle that is one token
Contains(netloc, needle) == \E i \in 1..Len(netloc) : netloc[i] = needle

\* parsed_url.netloc.replace("www.", ""): every occurrence is removed
StripWwwTest(t) == t # "www."

\* the netloc taken as it is, "www." included
netloc_unstripped(url) == url.netloc

extract_domain(url) == SelectSeq(url.netloc, StripWwwTest)

is_js_heavy_domain(url) ==
  /\ url.valid
  /\ LET domain == SelectSeq(Lower(url.netloc), StripWwwTest)
     IN  \E i \in 1..Len(JS_HEAVY_DOMAINS) : Contains(domain, JS_HEAVY_DOMAINS[i])

is_bloomberg_url(url) == url.valid /\ Contains(Lower(url.netloc), "bloomberg.com")

\* the 'originalUrl' parameter not looked at
extract_from_url_param_only(url) ==
  IF url.valid /\ Contains(Lower(url.netloc), "msn.com") THEN url.url ELSE <<>>

\* <<>> for None, <<u>> for the original URL
extract_original_url_from_msn(url) ==
  IF ~url.valid THEN <<>>
  ELSE IF Contains(Lower(url.netloc), "msn.com")
       THEN IF url.url # <<>> THEN url.url
            ELSE IF url.originalUrl # <<>> THEN url.originalUrl
            ELSE <<>>
       ELSE <<>>

\* ------------------------------------------------------------------ documents
\* A parsed HTML document, as far as the code looks at it:
\*   title     <<>> when there is no <title>, else <<its text>>
\*   headings  heading elements, each with the index of the first
\*             headline selector that matches it, in document order
\*   bylines   byline elements, each with the index of the first author
\*             selector that matches it and its text cut into tokens
\*   scripts   number of <script> elements
\*   paywall   the paywall indicators occurring in the page source
\*   blocks    the text nodes in document order: tag "p" for a paragraph;
\*             w words and c characters after strip(); box the index in
\*             content_selectors of the container holding it (0: none);
\*             junk when inside script/style/nav/header/footer/aside/
\*             iframe/noscript/form

Block(tag, w, c, box, junk) == [tag |-> tag, w |-> w, c |-> c, box |-> box, junk |-> junk]

P(w, c, box) == Block("p", w, c, box, FALSE)

MkDoc(title, headings, bylines, scripts, paywall, blocks) ==
  [title |-> title, headings |-> headings, bylines |-> bylines,
   scripts |-> scripts, paywall |-> paywall, blocks |-> blocks]

IsParagraph(b) == b.tag = "p"

HasText(b) == b.c > 0

NotJunk(b) == ~b.junk

\* len(soup.get_text(separator=' ', strip=True)): the non-empty strings
\* joined by one space
RECURSIVE SumChars(_)
SumChars(bs) == IF bs = <<>> THEN 0 ELSE Head(bs).c + SumChars(Tail(bs))

RECURSIVE SumWords(_)
SumWords(bs) == IF bs = <<>> THEN 0 ELSE Head(bs).w + SumWords(Tail(bs))

TextLen(blocks) ==
  LET strings == SelectSeq(blocks, HasText)
  IN  IF strings = <<>> THEN 0 ELSE SumChars(strings) + (Len(strings) - 1)

\* "\n\n".join(p.get_text().strip() for p in paragraphs if p.get_text().strip())
\* as the sequence of its paragraphs
JoinParagraphs(paragraphs) == SelectSeq(paragraphs, HasText)

\* len(content)
CharCount(content) ==
  IF content = <<>> THEN 0 ELSE SumChars(content) + 2 * (Len(content) - 1)

\* len(content.split())
count_words(content) == SumWords(content)


\* ------------------------------------------------------------------ extraction

\* the element select_one returns for the first selector of the list that
\* matches anything: the lowest selector index, the first in document order
FirstMatch(elems) ==
  IF elems = <<>> THEN <<>>
  ELSE LET best == CHOOSE i \in 1..Len(elems) :
                     /\ \A j \in 1..Len(elems) : elems[i].sel <= elems[j].sel
                     /\ \A j \in 1..(i - 1) : elems[j].sel # elems[i].sel
       IN  <<elems[best]>>

\* re.sub(r'^(By|Written by|Author:)\s*', '', author_text, flags=re.IGNORECASE)
IsAuthorPrefix(t) == t \in {"By", "by", "BY", "Written by", "written by", "Author:", "author:"}

IsSpace(t) == t = " "

RECURSIVE DropSpaces(_)
DropSpaces(tokens) ==
  IF tokens # <<>> /\ IsSpace(Head(tokens)) THEN DropSpaces(Tail(tokens)) ELSE tokens

StripAuthorPrefix(tokens) ==
  IF tokens # <<>> /\ IsAuthorPrefix(Head(tokens)) THEN DropSpaces(Tail(tokens)) ELSE tokens

ExtractTitle(doc, old) ==
  LET t == IF doc.title # <<>> THEN doc.title[1] ELSE old
      h == FirstMatch(doc.headings)
  IN  IF h # <<>> THEN h[1].text ELSE t

ExtractAuthor(doc, old) ==
  LET a == FirstMatch(doc.bylines)
  IN  IF a # <<>> THEN StripAuthorPrefix(a[1].text) ELSE old

ParagraphsIn(blocks, box) ==
  LET InBox(b) == IsParagraph(b) /\ b.box = box
  IN  SelectSeq(blocks, InBox)

\* the loop stopping at the first container that has any paragraph text
RECURSIVE ScanContainersAnySize(_, _)
ScanContainersAnySize(blocks, i) ==
  IF i > Len(content_selectors) THEN <<>>
  ELSE LET content == JoinParagraphs(ParagraphsIn(blocks, i))
       IN  IF content # <<>> THEN content ELSE ScanContainersAnySize(blocks, i + 1)

\* the loop over content_selectors: the content of the first container whose
\* paragraphs have 100 words or more, else <<>>
RECURSIVE ScanContainers(_, _)
ScanContainers(blocks, i) ==
  IF i > Len(content_selectors) THEN <<>>
  ELSE LET content == JoinParagraphs(ParagraphsIn(blocks, i))
       IN  IF count_words(content) >= ContainerMinWords THEN content
           ELSE ScanContainers(blocks, i + 1)

SelectContent(blocks) ==
  LET found == ScanContainers(blocks, 1)
  IN  IF count_words(found) < ContainerMinWords
      THEN JoinParagraphs(SelectSeq(blocks, IsParagraph))
      ELSE found

\* the JavaScript test made after the unwanted elements are removed
IsJsRenderedAfterStrip(doc) ==
  /\ doc.scripts > JsScriptThreshold
  /\ Len(SelectSeq(SelectSeq(doc.blocks, NotJunk), IsParagraph)) < JsMaxParagraphs
  /\ TextLen(SelectSeq(doc.blocks, NotJunk)) < JsPreviewChars

IsJsRendered(doc) ==
  /\ doc.scripts > JsScriptThreshold
  /\ Len(SelectSeq(doc.blocks, IsParagraph)) < JsMaxParagraphs
  /\ TextLen(doc.blocks) < JsPreviewChars

\* the 50-word check left out
ValidateCharsOnly(content) ==
  IF CharCount(content) < MinContentChars THEN RShortChars(CharCount(content)) ELSE NoErr

Validate(content) ==
  IF CharCount(content) < MinContentChars THEN RShortChars(CharCount(content))
  ELSE IF count_words(content) < MinContentWords THEN RShortWords(count_words(content))
  ELSE NoErr

\* extract_content_from_html(soup, metadata): (success, content | reason) and
\* the title and author it leaves in metadata
extract_content_from_html(doc, title, author) ==
  LET t == ExtractTitle(doc, title)
      a == ExtractAuthor(doc, author)
      fail(reason) == [ok |-> FALSE, content |-> <<>>, reason |-> reason, title |-> t, author |-> a]
      kept == SelectSeq(doc.blocks, NotJunk)
      content == SelectContent(kept)
  IN  IF IsJsRendered(doc)
      THEN fail(RJsRendered(doc.scripts, Len(SelectSeq(doc.blocks, IsParagraph))))
      ELSE IF TextLen(kept) < MinVisibleChars THEN fail(RNoContent(TextLen(kept)))
      ELSE IF Validate(content) # NoErr THEN fail(Validate(content))
      ELSE [ok |-> TRUE, content |-> content, reason |-> NoErr, title |-> t, author |-> a]


\* ------------------------------------------------------------------ inputs
\* The pages a server or the rendering browser can hand back, by name.

Nav == Block("nav", 30, 200, 0, TRUE)

Headline == <<[sel |-> 8, text |-> "Headline"]>>

Byline == <<[sel |-> 2, text |-> <<"By", " ", "Jane Doe">>]>>

DocNames ==
  {"long", "dense", "mid", "thin", "short", "fewwords", "js", "blank", "paywall", "paywall5"}

DocOf(name) ==
  CASE name = "long"     -> MkDoc(<<"Long">>, Headline, Byline, 5, {}, <<Nav, P(250, 1500, 1)>>)
    [] name = "dense"    -> MkDoc(<<"Dense">>, Headline, <<>>, 5, {}, <<P(150, 1200, 1)>>)
    [] name = "mid"      -> MkDoc(<<"Mid">>, <<>>, Byline, 5, {}, <<P(60, 350, 1), P(0, 0, 1), P(60, 350, 1)>>)
    [] name = "thin"     -> MkDoc(<<"Test">>, <<>>, <<>>, 2, {}, <<P(20, 100, 0), P(20, 100, 0), P(20, 100, 0)>>)
    [] name = "floor"    -> MkDoc(<<"Floor">>, <<>>, <<>>, 2, {}, <<P(50, 200, 1)>>)
    [] name = "short"    -> MkDoc(<<>>, <<>>, <<>>, 2, {}, <<Nav, P(50, 199, 0)>>)
    [] name = "fewwords" -> MkDoc(<<"Few">>, <<>>, <<>>, 2, {}, <<P(49, 250, 1)>>)
    [] name = "js"       -> MkDoc(<<"App">>, <<>>, <<>>, 25, {}, <<P(10, 60, 0), Block("div", 40, 239, 0, FALSE)>>)
    [] name = "blank"    -> MkDoc(<<"Blank">>, <<>>, <<>>, 2, {}, <<Nav, Block("div", 5, 30, 0, FALSE)>>)
    [] name = "paywall"  -> MkDoc(<<"Pay">>, <<>>, <<>>, 2, {2, 4}, <<P(10, 50, 0), P(10, 50, 0)>>)
    [] name = "paywall5" -> MkDoc(<<"Pay5">>, <<>>, <<>>, 2, {1}, <<P(50, 300, 1), P(50, 300, 1), P(50, 300, 1), P(50, 300, 1), P(50, 300, 1)>>)

\* What one requests.get call does: it raises exc, or returns a response with
\* a status and a body ("": 0 bytes, else the name of the page).
Raised(exc) == [kind |-> "exception", exc |-> exc, status |-> NoStatus, body |-> ""]

Response(status, body) == [kind |-> "response", exc |-> "", status |-> status, body |-> body]

NoOutcome == [kind |-> "none", exc |-> "", status |-> NoStatus, body |-> ""]

Exceptions ==
  {"Timeout", "SSLError", "ConnectionError: Name or service not known",
   "ConnectionError: Connection refused", "ConnectionError", "Exception"}

HttpOutcomes ==
  { Raised(e) : e \in Exceptions }
  \cup { Response(s, b) : s \in {403, 404, 429, 503}, b \in {"", "long"} }
  \cup { Response(403, "paywall") }
  \cup { Response(401, b) : b \in {"", "long", "short", "paywall"} }
  \cup { Response(200, b) : b \in {""} \cup DocNames }

\* What the headless browser does: a step raises (exc names the step), or
\* page.goto returns a response (status NoStatus: goto returned None) and
\* page.content() the rendered page.
PwRaised(step) == [kind |-> "exception", exc |-> step, status |-> NoStatus, body |-> ""]

\* a step after page.goto returned a response with this status raises
PwRaisedAfter(step, status) == [kind |-> "exception", exc |-> step, status |-> status, body |-> ""]

PwOutcomes ==
  { PwRaised(step) : step \in {"launch", "new_context", "new_page", "goto"} }
  \cup { PwRaisedAfter(step, 200) : step \in {"wait", "extract"} }
  \cup { Response(s, "long") : s \in {403, 404, 503} }
  \cup { Response(s, b) : s \in {NoStatus, 200}, b \in {"long", "mid", "thin", "floor", "short", "js"} }


\* ------------------------------------------------------------------ state

VARIABLES
  stack,                 \* the active calls of fetch_article, the innermost last
  playwright_available,  \* the module-level _playwright_available: "None", "True", "False"
  installed,             \* whether "from playwright.sync_api import ..." succeeds
  probes,                \* the threads inside check_playwright_available
  soup,                  \* the document handed to extract_content_from_html on its own
  verdict                \* what extract_content_from_html returned for soup

vars == <<stack, playwright_available, installed, probes, soup, verdict>>

\* the threads that may call check_playwright_available at the same time
Threads == 1..MaxThreads

\* a thread that has not called check_playwright_available: seen is the flag
\* as the test read it, found the outcome of the import, ret the value returned
IdleProbe == [pc |-> "idle", seen |-> "None", found |-> FALSE, ret |-> "None"]

NoProbes == [t \in Threads |-> IdleProbe]

\* no document: extract_content_from_html is not being run on its own
NoSoup == MkDoc(<<>>, <<>>, <<>>, 0, {}, <<>>)

NoVerdict == [ran |-> FALSE, ok |-> FALSE, content |-> <<>>, reason |-> NoErr]

NoExt == [parsed |-> FALSE, ran |-> FALSE, ok |-> FALSE, content |-> <<>>, reason |-> NoErr]

NewMetadata(url, method) ==
  [url |-> url, domain |-> <<>>, title |-> "", author |-> <<>>,
   fetch_errors |-> <<>>, http_status |-> NoStatus, fetch_method |-> method,
   partial_content |-> FALSE, partial_content_reason |-> NoErr]

\* A call of fetch_article: its arguments, its locals, where it stands (pc),
\* what it returned (ok, content, error, metadata), and what it did so far:
\* gets requests.get calls, slept seconds in time.sleep, parsed BeautifulSoup
\* parses, extracted calls of the extractor, pw_calls calls of
\* fetch_with_playwright, resp the outcome of the last requests.get, ext what
\* the last iteration did with the body (parsed it, ran the extractor, and
\* the extractor's result).
\* aliased: metadata["fetch_errors"] is the list object all_errors.
NewFrame(url, timeout, use_playwright_fallback) ==
  [url |-> url, timeout |-> timeout, use_playwright_fallback |-> use_playwright_fallback,
   metadata |-> NewMetadata(url, "requests"),
   all_errors |-> <<>>, aliased |-> FALSE, attempt |-> 0,
   should_try_playwright |-> FALSE, playwright_reason |-> "",
   pc |-> "start", ok |-> FALSE, content |-> <<>>, error |-> NoErr,
   gets |-> 0, slept |-> 0, parsed |-> 0, extracted |-> 0, pw_calls |-> 0,
   resp |-> NoOutcome, ext |-> NoExt, pw |-> NoOutcome]

Top == stack[Len(stack)]

SetTop(f) == [stack EXCEPT ![Len(stack)] = f]

\* ------------------------------------------------------------------ steps of fetch_article

\* all_errors.append(error_msg)
AppendError(f, e) ==
  [f EXCEPT !.all_errors = Append(@, e),
            !.metadata.fetch_errors = IF f.aliased THEN Append(@, e) ELSE @]

\* metadata["fetch_errors"] = all_errors
PublishErrors(f) ==
  [f EXCEPT !.metadata.fetch_errors = f.all_errors, !.aliased = TRUE]

\* return False, error_msg, metadata
ReturnFailed(f, e) == [f EXCEPT !.pc = "done", !.ok = FALSE, !.error = e, !.content = <<>>]

\* return True, content, metadata
ReturnSuccess(f, content) == [f EXCEPT !.pc = "done", !.ok = TRUE, !.content = content, !.error = NoErr]

\* the retry test off by one: attempt < MAX_RETRIES
CanRetryOffByOne(attempt) == attempt < MAX_RETRIES

\* if attempt < MAX_RETRIES - 1
CanRetry(attempt) == attempt < MAX_RETRIES - 1

\* the loop running one iteration too many
NextIterationOfThree(f) ==
  [f EXCEPT !.attempt = @ + 1,
            !.pc = IF f.attempt + 1 < MAX_RETRIES + 1 THEN "http" ELSE "fallback"]

\* for attempt in range(MAX_RETRIES): the next iteration, or the code after the loop
NextIteration(f) ==
  [f EXCEPT !.attempt = @ + 1,
            !.pc = IF f.attempt + 1 < MAX_RETRIES THEN "http" ELSE "fallback"]

\* time.sleep(RETRY_DELAY); continue
SleepAndContinue(f) == NextIteration([f EXCEPT !.slept = @ + RETRY_DELAY])

\* break
Break(f) == [f EXCEPT !.pc = "fallback"]

\* the last-attempt return without metadata["fetch_errors"] = all_errors
RetryOrFailUnpublished(f, e) ==
  LET g == AppendError(f, e)
  IN  IF CanRetry(f.attempt) THEN SleepAndContinue(g) ELSE ReturnFailed(g, e)

\* 403, 429, 5xx, empty body: retry, or on the last attempt return the error
RetryOrFail(f, e) ==
  LET g == AppendError(f, e)
  IN  IF CanRetry(f.attempt) THEN SleepAndContinue(g)
      ELSE ReturnFailed(PublishErrors(g), e)

\* the except clauses: retry, or on the last attempt leave the loop
RetryOrExhaust(f, e) ==
  LET g == AppendError(f, e)
  IN  IF CanRetry(f.attempt) THEN SleepAndContinue(g) ELSE NextIteration(g)

ExceptionError(exc, timeout) ==
  CASE exc = "Timeout" -> ETimeout(timeout)
    [] exc = "SSLError" -> ESsl
    [] exc = "ConnectionError: Name or service not known" -> EDns
    [] exc = "ConnectionError: Connection refused" -> ERefused
    [] exc = "ConnectionError" -> EConnection
    [] OTHER -> EUnexpected

OnForbidden(f) == RetryOrFail(f, E403)

\* a 404 handled like a 403: retried
OnNotFoundRetried(f) == RetryOrFail(f, E404)

OnNotFound(f) == ReturnFailed(PublishErrors(AppendError(f, E404)), E404)

OnRateLimited(f) == RetryOrFail(f, E429)

OnServerError(f, status) == RetryOrFail(f, EServer(status))

OnEmptyBody(f) == RetryOrFail(f, EEmpty)

\* detected_paywall: the first indicator of the list found in the page (0: none)
DetectedPaywall(doc) ==
  IF \E i \in 1..Len(paywall_indicators) : i \in doc.paywall
  THEN CHOOSE i \in 1..Len(paywall_indicators) :
         i \in doc.paywall /\ \A j \in 1..(i - 1) : j \notin doc.paywall
  ELSE 0

\* the paragraph threshold of the paywall check set to 2
IsPaywalledBelowTwo(doc) ==
  /\ DetectedPaywall(doc) # 0
  /\ Len(SelectSeq(doc.blocks, IsParagraph)) < 2

\* if detected_paywall and len(soup.find_all('p')) < 5
IsPaywalled(doc) ==
  /\ DetectedPaywall(doc) # 0
  /\ Len(SelectSeq(doc.blocks, IsParagraph)) < PaywallMaxParagraphs

OnPaywall(f, doc) ==
  LET e == EPaywall(DetectedPaywall(doc))
  IN  ReturnFailed(PublishErrors(AppendError(f, e)), e)

\* the metadata left as it is, whatever the length
never_partial(content, metadata) == metadata

\* handle_bloomberg_content(content, metadata)
handle_bloomberg_content(content, metadata) ==
  IF CharCount(content) < BloombergMinChars
  THEN [metadata EXCEPT
          !.partial_content = TRUE,
          !.partial_content_reason =
             Err("Bloomberg content too short ({char_count} chars, {word_count} words) - may need manual review",
                 CharCount(content), count_words(content))]
  ELSE metadata

\* the 500-character check left out
IsNeverTooShort(content) == FALSE

\* if char_count < MIN_CONTENT_CHARS_FOR_SUCCESS
IsTooShortForRequests(content) == CharCount(content) < MIN_CONTENT_CHARS_FOR_SUCCESS

\* the word-count half of the thin-content test left out
IsThinByCharsOnly(url, content) ==
  is_js_heavy_domain(url) /\ CharCount(content) < JsHeavyMinChars

\* if is_js_heavy_domain(url) and (char_count < 1000 or word_count < 200)
IsThinForJsHeavy(url, content) ==
  /\ is_js_heavy_domain(url)
  /\ (CharCount(content) < JsHeavyMinChars \/ count_words(content) < JsHeavyMinWords)

\* the metadata returned with a success of the requests tier
RequestsSuccessMetadata(f, content) ==
  LET m == IF is_bloomberg_url(f.url) THEN handle_bloomberg_content(content, f.metadata)
           ELSE f.metadata
  IN  [m EXCEPT !.fetch_method = "requests"]

\* the two length checks left out: every extracted text is returned
OnExtractedUnchecked(f, content) ==
  ReturnSuccess([f EXCEPT !.metadata = RequestsSuccessMetadata(f, content)], content)

\* if success: ... (lines 514-541)
OnExtracted(f, content) ==
  IF IsTooShortForRequests(content)
  THEN Break(AppendError([f EXCEPT !.should_try_playwright = TRUE,
                                   !.playwright_reason = "Content too short"],
                         EInsufficient(CharCount(content))))
  ELSE IF IsThinForJsHeavy(f.url, content)
  THEN Break(AppendError([f EXCEPT !.should_try_playwright = TRUE,
                                   !.playwright_reason = "JS-heavy domain with thin content"],
                         EJsHeavyThin))
  ELSE ReturnSuccess([f EXCEPT !.metadata = RequestsSuccessMetadata(f, content)], content)

\* else: ... (lines 542-563)
OnExtractionFailed(f, reason) ==
  LET g == AppendError(f, ExtractionFailed(reason))
  IN  IF MentionsJsRendered(reason)
      THEN Break([g EXCEPT !.should_try_playwright = TRUE,
                           !.playwright_reason = "Detected JavaScript-rendered page"])
      ELSE IF CanRetry(f.attempt) THEN SleepAndContinue(g)
      ELSE Break([PublishErrors(g) EXCEPT !.should_try_playwright = TRUE,
                                          !.playwright_reason = "All request attempts failed"])

\* soup = BeautifulSoup(...); the paywall check; the extraction
OnHtml(f, doc) ==
  LET g == [f EXCEPT !.parsed = @ + 1, !.ext.parsed = TRUE]
  IN  IF IsPaywalled(doc) THEN OnPaywall(g, doc)
      ELSE LET r == extract_content_from_html(doc, g.metadata.title, g.metadata.author)
               h == [g EXCEPT !.extracted = @ + 1,
                              !.ext = [parsed |-> TRUE, ran |-> TRUE, ok |-> r.ok,
                                       content |-> r.content, reason |-> r.reason],
                              !.metadata.title = r.title, !.metadata.author = r.author]
           IN  IF r.ok THEN OnExtracted(h, r.content) ELSE OnExtractionFailed(h, r.reason)

\* the content_length == 0 check left out: the empty body is parsed
OnBodyUnchecked(f, body) ==
  OnHtml(f, IF body = "" THEN MkDoc(<<>>, <<>>, <<>>, 0, {}, <<>>) ELSE DocOf(body))

\* if content_length == 0: ... else parse
OnBody(f, body) == IF body = "" THEN OnEmptyBody(f) ELSE OnHtml(f, DocOf(body))

\* the final attempt returning the error instead of going on with the body
OnUnexpectedStatusFailing(f, o) == RetryOrFail(f, EUnexpectedStatus(o.status))

\* if status_code != 200: retried, but on the last attempt the body is processed
OnUnexpectedStatus(f, o) ==
  LET g == AppendError(f, EUnexpectedStatus(o.status))
  IN  IF CanRetry(f.attempt) THEN SleepAndContinue(g) ELSE OnBody(g, o.body)

OnResponse(f, o) ==
  LET g == [f EXCEPT !.metadata.http_status = o.status]
  IN  IF o.status = 403 THEN OnForbidden(g)
      ELSE IF o.status = 404 THEN OnNotFound(g)
      ELSE IF o.status = 429 THEN OnRateLimited(g)
      ELSE IF o.status >= ServerErrorFloor THEN OnServerError(g, o.status)
      ELSE IF o.status # 200 THEN OnUnexpectedStatus(g, o)
      ELSE OnBody(g, o.body)

\* one iteration of "for attempt in range(MAX_RETRIES)" (lines 408-602)
Iteration(f, o) ==
  LET g == [f EXCEPT !.gets = @ + 1, !.resp = o, !.ext = NoExt]
  IN  IF o.kind = "exception" THEN RetryOrExhaust(g, ExceptionError(o.exc, f.timeout))
      ELSE OnResponse(g, o)


\* ------------------------------------------------------------------ headless tier

EUnknown == Err("Unknown error", 0, 0)

\* what the call did after the navigation: waited milliseconds in
\* page.wait_for_timeout, captured page.content(), extracted the content
NoSteps == [waited |-> 0, captured |-> FALSE, extracted |-> FALSE]

Waited == [NoSteps EXCEPT !.waited = ExtraWaitMs]

Captured == [Waited EXCEPT !.captured = TRUE]

Extracted == [Captured EXCEPT !.extracted = TRUE]

\* fetch_with_playwright(url): (success, content | error, metadata), with
\* launched: the browser was launched, closes: calls of browser.close(),
\* did: the steps taken after the navigation
PwResult(ok, content, error, metadata, launched, closes, did) ==
  [ok |-> ok, content |-> content, error |-> error, metadata |-> metadata,
   launched |-> launched, closes |-> closes, did |-> did]

PwFailed(metadata, e, launched, closes, did) ==
  PwResult(FALSE, <<>>, e, [metadata EXCEPT !.fetch_errors = Append(@, e)],
           launched, closes, did)

\* only the server errors taken for an error status
IsServerErrorStatus(status) == status # NoStatus /\ status >= ServerErrorFloor

\* if response: ... if response.status >= 400
IsErrorStatus(status) == status # NoStatus /\ status >= HttpErrorFloor

fetch_with_playwright(url, o) ==
  LET m0 == [NewMetadata(url, "playwright") EXCEPT !.domain = extract_domain(url)]
      m1 == IF o.status # NoStatus THEN [m0 EXCEPT !.http_status = o.status] ELSE m0
  IN  IF o.kind = "exception"
      THEN IF o.exc = "launch" THEN PwFailed(m0, EPwError, FALSE, 0, NoSteps)
           ELSE IF o.exc \in {"new_context", "new_page"}
           THEN PwFailed(m0, EPwError, TRUE, 0, NoSteps)
           ELSE IF o.exc = "goto" THEN PwFailed(m0, EPwError, TRUE, 1, NoSteps)
           ELSE IF o.exc = "wait" THEN PwFailed(m1, EPwError, TRUE, 1, NoSteps)
           ELSE PwFailed(m1, EPwError, TRUE, 2, Captured)
      ELSE IF IsErrorStatus(o.status)
           THEN PwFailed(m1, EPwStatus(o.status), TRUE, 1, NoSteps)
           ELSE LET r == extract_content_from_html(DocOf(o.body), m1.title, m1.author)
                    m2 == [m1 EXCEPT !.title = r.title, !.author = r.author]
                IN  IF r.ok THEN PwResult(TRUE, r.content, NoErr, m2, TRUE, 1, Extracted)
                    ELSE PwFailed(m2, ExtractionFailed(r.reason), TRUE, 1, Extracted)

\* check_playwright_available(): the value returned, and the flag afterwards
FlagAfterCheck == IF playwright_available = "None"
                  THEN (IF installed THEN "True" ELSE "False")
                  ELSE playwright_available

check_playwright_available == FlagAfterCheck = "True"

\* the availability probe left out of the condition
TriesPlaywrightUnprobed(f) == f.use_playwright_fallback /\ f.should_try_playwright

\* use_playwright_fallback and should_try_playwright and check_playwright_available()
TriesPlaywright(f) ==
  f.use_playwright_fallback /\ f.should_try_playwright /\ check_playwright_available

\* the flag after the condition above has been evaluated (and short-circuits)
FlagAfterCondition(f) ==
  IF f.use_playwright_fallback /\ f.should_try_playwright THEN FlagAfterCheck
  ELSE playwright_available

\* all_errors[0] reported instead of all_errors[-1]
FirstError(all_errors) == IF all_errors # <<>> THEN all_errors[1] ELSE EUnknown

\* final_error = all_errors[-1] if all_errors else "Unknown error"
FinalError(all_errors) == IF all_errors # <<>> THEN Last(all_errors) ELSE EUnknown

\* return False, final_error, metadata (lines 631-633)
ReturnFinalError(f) == ReturnFailed(f, FinalError(f.all_errors))

\* metadata.update(pw_metadata) and the two assignments after it (lines 615-617)
MergePlaywrightSuccess(f, pw) ==
  [f EXCEPT !.metadata = [pw.metadata EXCEPT
                            !.partial_content = f.metadata.partial_content,
                            !.partial_content_reason = f.metadata.partial_content_reason,
                            !.fetch_method = "playwright",
                            !.fetch_errors = f.all_errors \o pw.metadata.fetch_errors],
            !.aliased = FALSE]

\* the headless errors left out of the accumulator
MergePlaywrightFailureDropped(f, pw) == PublishErrors(f)

\* the headless errors assigned instead of appended
MergePlaywrightFailureReplacing(f, pw) ==
  PublishErrors([f EXCEPT !.all_errors = pw.metadata.fetch_errors])

\* all_errors.extend(pw_metadata.get("fetch_errors", [])); metadata["fetch_errors"] = all_errors
MergePlaywrightFailure(f, pw) ==
  PublishErrors([f EXCEPT !.all_errors = @ \o pw.metadata.fetch_errors])

\* if pw_success: ... else: ... (lines 611-633)
OnPlaywright(f, o) ==
  LET pw == fetch_with_playwright(f.url, o)
      g  == [f EXCEPT !.pw_calls = @ + 1, !.pw = o]
  IN  IF pw.ok
      THEN LET h == MergePlaywrightSuccess(g, pw)
               m == IF is_bloomberg_url(f.url) THEN handle_bloomberg_content(pw.content, h.metadata)
                    ELSE h.metadata
           IN  ReturnSuccess([h EXCEPT !.metadata = m], pw.content)
      ELSE ReturnFinalError(MergePlaywrightFailure(g, pw))

\* ------------------------------------------------------------------ actions

\* a caller calls fetch_article(url, use_playwright_fallback=...)
Call(url, use_playwright_fallback) ==
  /\ stack = <<>>
  /\ stack' = <<NewFrame(url, DEFAULT_TIMEOUT, use_playwright_fallback)>>
  /\ UNCHANGED <<playwright_available, installed, probes, soup, verdict>>

\* urlparse raises: the outer except clause (lines 635-639)
StartFatal ==
  /\ stack # <<>> /\ Top.pc = "start" /\ ~Top.url.valid
  /\ stack' = SetTop(ReturnFailed([Top EXCEPT !.metadata.fetch_errors = <<EFatal>>], EFatal))
  /\ UNCHANGED <<playwright_available, installed, probes, soup, verdict>>

\* lines 374-406 for a URL that is not unwrapped
StartDirect ==
  /\ stack # <<>> /\ Top.pc = "start" /\ Top.url.valid
  /\ extract_original_url_from_msn(Top.url) = <<>>
  /\ stack' = SetTop([Top EXCEPT !.metadata.domain = extract_domain(Top.url), !.pc = "http"])
  /\ UNCHANGED <<playwright_available, installed, probes, soup, verdict>>

\* lines 374-398: result = fetch_article(original_url, timeout)
StartUnwrap ==
  /\ stack # <<>> /\ Top.pc = "start" /\ Top.url.valid
  /\ extract_original_url_from_msn(Top.url) # <<>>
  /\ stack' = Append(SetTop([Top EXCEPT !.metadata.domain = extract_domain(Top.url),
                                        !.pc = "await"]),
                     NewFrame(extract_original_url_from_msn(Top.url)[1], Top.timeout, TRUE))
  /\ UNCHANGED <<playwright_available, installed, probes, soup, verdict>>

\* the failed result's errors, status, title and author carried into the caller
TakeResultKeepingFailure(caller, result) ==
  IF result.ok
  THEN [caller EXCEPT !.pc = "done", !.ok = TRUE, !.content = result.content,
                      !.error = NoErr, !.metadata = result.metadata]
  ELSE [caller EXCEPT !.pc = "http", !.all_errors = result.all_errors,
                      !.metadata.fetch_errors = result.metadata.fetch_errors,
                      !.metadata.http_status = result.metadata.http_status,
                      !.metadata.title = result.metadata.title,
                      !.metadata.author = result.metadata.author]

\* if result[0]: return result; else go on with the wrapper: the result is
\* dropped, metadata is the caller's own dict and all_errors = []
TakeResult(caller, result) ==
  IF result.ok
  THEN [caller EXCEPT !.pc = "done", !.ok = TRUE, !.content = result.content,
                      !.error = NoErr, !.metadata = result.metadata]
  ELSE [caller EXCEPT !.pc = "http"]

\* lines 399-402: the recursive call returns
Return ==
  /\ Len(stack) >= 2 /\ Top.pc = "done"
  /\ stack' = Append(SubSeq(stack, 1, Len(stack) - 2),
                     TakeResult(stack[Len(stack) - 1], Top))
  /\ UNCHANGED <<playwright_available, installed, probes, soup, verdict>>

\* the outermost call returns to its caller, which takes the result
Deliver ==
  /\ Len(stack) = 1 /\ Top.pc = "done"
  /\ stack' = <<>>
  /\ UNCHANGED <<playwright_available, installed, probes, soup, verdict>>

\* one iteration of the retry loop
HttpAttempt(o) ==
  /\ stack # <<>> /\ Top.pc = "http"
  /\ stack' = SetTop(Iteration(Top, o))
  /\ UNCHANGED <<playwright_available, installed, probes, soup, verdict>>

\* lines 604-633 when playwright is tried
Fallback(o) ==
  /\ stack # <<>> /\ Top.pc = "fallback"
  /\ TriesPlaywright(Top)
  /\ stack' = SetTop(OnPlaywright(PublishErrors(Top), o))
  /\ playwright_available' = FlagAfterCondition(Top)
  /\ UNCHANGED <<installed, probes, soup, verdict>>

\* lines 604-633 when playwright is not tried
Exhausted ==
  /\ stack # <<>> /\ Top.pc = "fallback"
  /\ ~TriesPlaywright(Top)
  /\ stack' = SetTop(ReturnFinalError(PublishErrors(Top)))
  /\ playwright_available' = FlagAfterCondition(Top)
  /\ UNCHANGED <<installed, probes, soup, verdict>>

Init ==
  /\ stack = <<>>
  /\ playwright_available = "None"
  /\ installed \in BOOLEAN
  /\ probes = NoProbes
  /\ soup = NoSoup
  /\ verdict = NoVerdict

Next ==
  \/ \E url \in Urls(MaxWrap), use_playwright_fallback \in BOOLEAN :
       Call(url, use_playwright_fallback)
  \/ StartFatal
  \/ StartDirect
  \/ StartUnwrap
  \/ Return
  \/ Deliver
  \/ \E o \in HttpOutcomes : HttpAttempt(o)
  \/ \E o \in PwOutcomes : Fallback(o)
  \/ Exhausted

Spec == Init /\ [][Next]_vars


\* a step of a call that has started: a statement of fetch_article, or the
\* caller taking the result
Proceed ==
  \/ StartFatal
  \/ StartDirect
  \/ StartUnwrap
  \/ Return
  \/ Deliver
  \/ \E o \in HttpOutcomes : HttpAttempt(o)
  \/ \E o \in PwOutcomes : Fallback(o)
  \/ Exhausted

\* ------------------------------------------------------------------ concurrent probes
\* check_playwright_available() called from several threads: each thread
\* runs the statements of lines 46-55 one at a time, in any interleaving.

SetProbe(t, p) == [probes EXCEPT ![t] = p]

\* the value handed back by the first read of the flag, not by line 55
ProbeResultTested(p) == p.seen

\* return _playwright_available
ProbeResult(p) == playwright_available

\* a thread calls check_playwright_available()
ProbeEnter(t) ==
  /\ probes[t].pc \in {"idle", "done"}
  /\ probes' = SetProbe(t, [IdleProbe EXCEPT !.pc = "test"])
  /\ UNCHANGED <<stack, playwright_available, installed, soup, verdict>>

\* if _playwright_available is None
ProbeTest(t) ==
  /\ probes[t].pc = "test"
  /\ probes' = SetProbe(t, [probes[t] EXCEPT
                              !.seen = playwright_available,
                              !.pc = IF playwright_available = "None" THEN "import"
                                     ELSE "return"])
  /\ UNCHANGED <<stack, playwright_available, installed, soup, verdict>>

\* from playwright.sync_api import sync_playwright: succeeds or raises ImportError
ProbeImport(t) ==
  /\ probes[t].pc = "import"
  /\ probes' = SetProbe(t, [probes[t] EXCEPT !.found = installed, !.pc = "store"])
  /\ UNCHANGED <<stack, playwright_available, installed, soup, verdict>>

\* _playwright_available = True, or = False in the except clause
ProbeStore(t) ==
  /\ probes[t].pc = "store"
  /\ playwright_available' = IF probes[t].found THEN "True" ELSE "False"
  /\ probes' = SetProbe(t, [probes[t] EXCEPT !.pc = "return"])
  /\ UNCHANGED <<stack, installed, soup, verdict>>

\* return _playwright_available
ProbeReturn(t) ==
  /\ probes[t].pc = "return"
  /\ probes' = SetProbe(t, [probes[t] EXCEPT !.ret = ProbeResult(probes[t]), !.pc = "done"])
  /\ UNCHANGED <<stack, playwright_available, installed, soup, verdict>>

ProbeNext ==
  \E t \in Threads :
    \/ ProbeEnter(t)
    \/ ProbeTest(t)
    \/ ProbeImport(t)
    \/ ProbeStore(t)
    \/ ProbeReturn(t)

ProbeSpec == Init /\ [][ProbeNext]_vars

\* ------------------------------------------------------------------ the extractor on its own
\* extract_content_from_html(soup, metadata) applied to one document.

Div(w, c) == Block("div", w, c, 0, FALSE)

\* the text nodes of the documents tried, after an optional nav element
TestBodies ==
  { <<>>,
    <<Div(20, 99)>>,
    <<Div(20, 100)>>,
    <<P(10, 60, 0)>>,
    <<P(10, 60, 0), P(10, 60, 0)>>,
    <<P(20, 100, 0), P(20, 100, 0), P(20, 100, 0)>>,
    <<P(10, 60, 0), Div(40, 239)>>,
    <<P(10, 60, 0), Div(40, 438)>>,
    <<P(10, 60, 0), Div(40, 439)>>,
    <<P(50, 199, 0)>>,
    <<P(49, 200, 0)>>,
    <<P(50, 200, 0)>>,
    <<P(60, 350, 3), P(120, 700, 1)>>,
    <<P(60, 350, 1), P(120, 700, 3)>>,
    <<P(100, 600, 2), P(100, 600, 5)>>,
    <<P(99, 600, 2), P(30, 200, 0)>>,
    <<P(0, 0, 1), P(120, 700, 1)>>,
    <<Block("p", 100, 600, 0, TRUE), P(60, 300, 0)>> }

TestDocs ==
  { MkDoc(<<"Test">>, <<>>, <<>>, scripts, {}, lead \o body) :
      scripts \in {20, 21, 25}, lead \in {<<>>, <<Nav>>}, body \in TestBodies }

ExtractInit ==
  /\ stack = <<>>
  /\ playwright_available = "None"
  /\ installed = FALSE
  /\ probes = NoProbes
  /\ soup \in TestDocs
  /\ verdict = NoVerdict

\* success, content = extract_content_from_html(soup, metadata)
ExtractContent ==
  /\ ~verdict.ran
  /\ LET r == extract_content_from_html(soup, "", <<>>)
     IN  verdict' = [ran |-> TRUE, ok |-> r.ok, content |-> r.content, reason |-> r.reason]
  /\ UNCHANGED <<stack, playwright_available, installed, probes, soup>>

ExtractSpec == ExtractInit /\ [][ExtractContent]_vars

\* ------------------------------------------------------------------ claims

Frames == {stack[i] : i \in 1..Len(stack)}

Running == stack # <<>>

\* headless rendering can be used by f: the fallback is enabled and playwright imports
HeadlessAvailable(f) == f.use_playwright_fallback /\ installed

\* the last requests.get of f returned a response with this status
GotStatus(f, status) == f.resp.kind = "response" /\ f.resp.status = status

Returned(f) == f.pc = "done"

Failed(f) == f.pc = "done" /\ ~f.ok

Success(f) == f.pc = "done" /\ f.ok

\* C1: an HTTP attempt that receives status 404 ends the call as Failed at
\* once: the call does not go on to another HTTP attempt, the headless tier
\* is not invoked, and the returned http_status is 404.
C1_NotFoundIsTerminal ==
  \A f \in Frames :
    GotStatus(f, 404) =>
      /\ Failed(f)
      /\ f.error = E404
      /\ f.pw_calls = 0
      /\ f.metadata.http_status = 404
      /\ f.slept = RETRY_DELAY * (f.gets - 1)

\* a 404 on the second attempt, with the headless tier available
C1_Witness ==
  /\ Running /\ GotStatus(Top, 404) /\ Top.gets = MAX_RETRIES
  /\ HeadlessAvailable(Top) /\ Failed(Top)

\* the failures the retry policy names: 403, 429, 5xx, timeout, SSL error,
\* connection error, empty body
IsRetryableFailure(o) ==
  \/ o.kind = "exception" /\ o.exc # "Exception"
  \/ o.kind = "response" /\ (o.status \in {403, 429} \/ o.status >= ServerErrorFloor)
  \/ o.kind = "response" /\ o.status = 200 /\ o.body = ""

\* C2: when the last allowed HTTP attempt ends in a retryable failure and
\* headless is available, a headless attempt is run before the call reports
\* its outcome.
C2_ExhaustionEscalates ==
  \A f \in Frames :
    (Returned(f) /\ f.gets = MAX_RETRIES /\ IsRetryableFailure(f.resp) /\ HeadlessAvailable(f))
      => f.pw_calls = 1

\* the HTTP-tier extraction of the last response of f succeeded with fewer
\* than 500 characters
ExtractedThin(f) ==
  f.ext.ran /\ f.ext.ok /\ CharCount(f.ext.content) < MIN_CONTENT_CHARS_FOR_SUCCESS

\* C3 as stated: off the JS-heavy domains, an HTTP-tier extraction that
\* succeeds with fewer than 500 characters is returned as Success, without
\* the headless tier.
C3_ThinContentIsSuccess ==
  \A f \in Frames :
    (ExtractedThin(f) /\ ~is_js_heavy_domain(f.url)) =>
      (Success(f) /\ f.content = f.ext.content /\ f.pw_calls = 0)

\* C3 amended: on any domain, an HTTP-tier extraction that succeeds with
\* fewer than 500 characters is not returned by the HTTP tier: the call
\* records an insufficient-content error and leaves the retry loop for the
\* headless tier; the outcome is the headless attempt's when headless is
\* available, and Failed with the insufficient-content error when it is not.
C3_ThinContentEscalates ==
  \A f \in Frames :
    ExtractedThin(f) =>
      /\ f.should_try_playwright
      /\ f.pc \in {"fallback", "done"}
      /\ EInsufficient(CharCount(f.ext.content)) \in Range(f.all_errors)
      /\ Returned(f) =>
           IF HeadlessAvailable(f)
           THEN /\ f.pw_calls = 1
                /\ f.ok = fetch_with_playwright(f.url, f.pw).ok
                /\ f.ok => (f.metadata.fetch_method = "playwright"
                            /\ f.content = fetch_with_playwright(f.url, f.pw).content)
           ELSE /\ f.pw_calls = 0
                /\ ~f.ok
                /\ f.error = EInsufficient(CharCount(f.ext.content))

\* a thin extraction off the JS-heavy domains, rescued by the headless tier
C3_Witness ==
  /\ Running /\ ExtractedThin(Top) /\ ~is_js_heavy_domain(Top.url)
  /\ Success(Top) /\ Top.pw_calls = 1

\* C4: when HTTP attempt 1 fails retryably and HTTP attempt 2 succeeds, the
\* fetch_errors returned with the Success holds the error of attempt 1.
C4_ErrorsExposedOnSuccess ==
  \A f \in Frames :
    (Success(f) /\ f.gets = MAX_RETRIES /\ f.pw_calls = 0) =>
      /\ f.all_errors # <<>>
      /\ f.all_errors[1] \in Range(f.metadata.fetch_errors)


\* C5: within one call the error accumulator is append-only: over every step
\* of the call (HTTP attempts, headless tier, return) the old all_errors and
\* the old metadata.fetch_errors are prefixes of the new ones.
C5_AccumulatorAppendOnly ==
  [][\A i \in 1..Len(stack) :
       i <= Len(stack') =>
         /\ IsPrefix(stack[i].all_errors, stack'[i].all_errors)
         /\ IsPrefix(stack[i].metadata.fetch_errors, stack'[i].metadata.fetch_errors)]_vars

\* two HTTP-tier errors followed by the headless error
C5_Witness ==
  /\ Running /\ Failed(Top) /\ Top.gets = MAX_RETRIES /\ Top.pw_calls = 1
  /\ Len(Top.metadata.fetch_errors) = 3
  /\ Top.metadata.fetch_errors = Top.all_errors

\* C6: whenever a call returns Failed, fetch_errors is non-empty and its last
\* element is the returned error; the "Unknown error" default is not returned.
C6_FailedReportsLastError ==
  \A f \in Frames :
    Failed(f) =>
      /\ f.metadata.fetch_errors # <<>>
      /\ Last(f.metadata.fetch_errors) = f.error
      /\ f.error # EUnknown

\* a failure that went through two different HTTP errors and the headless tier
C6_Witness ==
  /\ Running /\ Failed(Top) /\ Top.pw_calls = 1
  /\ Top.all_errors[1] # Last(Top.all_errors)
  /\ Top.error = EPwError

\* the failures C7 names: 403, 429, 5xx, timeout, SSL error, connection error
IsRetryPolicyFailure(o) ==
  \/ o.kind = "exception" /\ o.exc # "Exception"
  \/ o.kind = "response" /\ (o.status \in {403, 429} \/ o.status >= ServerErrorFloor)

\* C7: a call issues at most 2 GETs; a first attempt failing with 403, 429,
\* 5xx, timeout, SSL or connection error leaves the call about to make its
\* second attempt; each further attempt is preceded by exactly one 2-second
\* sleep, and nothing is slept after the final attempt.
C7_RetryPolicy ==
  \A f \in Frames :
    /\ f.gets <= MAX_RETRIES
    /\ (f.gets = 1 /\ IsRetryPolicyFailure(f.resp)) => (f.pc = "http" /\ f.attempt = 1)
    /\ f.pc = "http" => (f.gets = f.attempt /\ f.slept = RETRY_DELAY * f.attempt)
    /\ (f.pc \in {"fallback", "done"} /\ f.gets >= 1) => f.slept = RETRY_DELAY * (f.gets - 1)
    /\ f.gets = 0 => f.slept = 0

\* two attempts that both raised, one sleep between them
C7_Witness ==
  /\ Running /\ Top.gets = MAX_RETRIES /\ Top.resp.kind = "exception"
  /\ Top.pc = "fallback" /\ Top.slept = RETRY_DELAY /\ Len(Top.all_errors) = 2

IsStatusError(e) == e.text \in {E403.text, E429.text, EServer(0).text}

\* C8: both HTTP attempts return a retryable error status and headless is
\* unavailable: the call is Failed, the error names the status of the second
\* response, http_status is that status, fetch_errors has exactly 2 entries.
C8_BlockedTwice ==
  \A f \in Frames :
    ( /\ f.gets = MAX_RETRIES
      /\ f.resp.kind = "response"
      /\ (f.resp.status \in {403, 429} \/ f.resp.status >= ServerErrorFloor)
      /\ Len(f.all_errors) >= 1 /\ IsStatusError(f.all_errors[1])
      /\ ~installed )
    => /\ Failed(f)
       /\ IsStatusError(f.error) /\ f.error.a = f.resp.status
       /\ f.metadata.http_status = f.resp.status
       /\ Len(f.metadata.fetch_errors) = 2
       /\ f.pw_calls = 0

\* a 403 followed by a 503, playwright not installed
C8_Witness ==
  /\ Running /\ ~installed /\ Top.gets = MAX_RETRIES
  /\ GotStatus(Top, 503) /\ Top.all_errors[1] = E403 /\ Failed(Top)

\* the page source holds a paywall marker and the page fewer than 5 <p>
MarkerAndFewParagraphs(o) ==
  /\ o.kind = "response" /\ o.body # ""
  /\ DocOf(o.body).paywall # {}
  /\ Len(SelectSeq(DocOf(o.body).blocks, IsParagraph)) < PaywallMaxParagraphs

\* the consequence C9 states
PaywallFailure(f) ==
  /\ Failed(f)
  /\ f.error.text = EPaywall(0).text
  /\ ~f.ext.ran
  /\ f.pw_calls = 0
  /\ f.slept = RETRY_DELAY * (f.gets - 1)
  /\ f.gets = 1 => Len(f.metadata.fetch_errors) = 1

\* C9 as stated: any HTTP response whose HTML holds a paywall marker and
\* fewer than 5 <p> makes the call fail at once with the paywall error.
C9_PaywallAlwaysFails ==
  \A f \in Frames : MarkerAndFewParagraphs(f.resp) => PaywallFailure(f)

\* the iteration processes the body of the response: the status is 200, or
\* it is none of 403, 404, 429, 5xx and the attempt is the last one
BodyProcessed(f) ==
  /\ f.resp.kind = "response"
  /\ \/ f.resp.status = 200
     \/ /\ f.resp.status \notin {403, 404, 429}
        /\ f.resp.status < ServerErrorFloor
        /\ f.gets = MAX_RETRIES

\* C9 amended: the same, for a response whose body the code processes
\* (status 200, or an unexpected status on the last attempt); a response
\* with status 403, 404, 429 or 5xx is handled by its status whatever its body.
C9_PaywallFailsWhenBodyProcessed ==
  \A f \in Frames :
    /\ (BodyProcessed(f) /\ MarkerAndFewParagraphs(f.resp)) => PaywallFailure(f)
    /\ (GotStatus(f, 403) /\ MarkerAndFewParagraphs(f.resp)) => Last(f.all_errors) = E403

\* a paywalled page on the first attempt
C9_Witness ==
  /\ Running /\ Top.gets = 1 /\ GotStatus(Top, 200) /\ MarkerAndFewParagraphs(Top.resp)
  /\ Failed(Top) /\ Top.metadata.fetch_errors = <<EPaywall(2)>>

EmptyBody(o) == o.kind = "response" /\ o.body = ""

\* what C10 says an empty body leads to
EmptyBodyHandling(f) ==
  /\ ~Success(f)
  /\ ~f.ext.parsed /\ ~f.ext.ran
  /\ Last(f.all_errors) = EEmpty
  /\ IF f.gets < MAX_RETRIES
     THEN f.pc = "http" /\ f.attempt = f.gets /\ f.slept = RETRY_DELAY * f.gets
     ELSE Failed(f) /\ f.error = EEmpty /\ f.slept = RETRY_DELAY * (f.gets - 1)

\* C10 as stated: any response with a 0-byte body records the empty-response
\* error, is retried on the first attempt and ends the HTTP tier with that
\* error on the last one, and is never parsed or extracted.
C10_EmptyBodyAlwaysRetried ==
  \A f \in Frames : EmptyBody(f.resp) => EmptyBodyHandling(f)

\* C10 amended: a 0-byte body is never Success and never parsed or
\* extracted; the empty-response error, the retry and the final failure are
\* those of a response whose body the code processes (status 200, or an
\* unexpected status on the last attempt); otherwise the status decides.
C10_EmptyBodyNeverSuccess ==
  \A f \in Frames :
    EmptyBody(f.resp) =>
      /\ ~Success(f)
      /\ ~f.ext.parsed /\ ~f.ext.ran
      /\ BodyProcessed(f) => EmptyBodyHandling(f)
      /\ ~BodyProcessed(f) => Last(f.all_errors) # EEmpty

\* an empty 200 response on both attempts
C10_Witness ==
  /\ Running /\ Top.gets = MAX_RETRIES /\ Top.resp = Response(200, "")
  /\ Top.all_errors = <<EEmpty, EEmpty>> /\ Failed(Top)

\* the extractor ran on the last response of f and reported a failure
ExtractionFailedOn(f) == f.ext.ran /\ ~f.ext.ok

\* the failure reported is the JavaScript-rendered-page one
IsJsFailure(f) == f.ext.reason.text = RJsRendered(0, 0).text

\* what the end of the HTTP tier looks like for f: the headless tier is asked
\* for, no HTTP attempt follows, and the call ends with the headless attempt
\* when headless is available and as Failed when it is not
EndsHttpTier(f) ==
  /\ f.should_try_playwright
  /\ f.pc \in {"fallback", "done"}
  /\ Returned(f) =>
       IF HeadlessAvailable(f)
       THEN f.pw_calls = 1 /\ f.ok = fetch_with_playwright(f.url, f.pw).ok
       ELSE f.pw_calls = 0 /\ ~f.ok

\* C11 as stated: an extraction failure of any kind on an HTTP attempt sends
\* the call straight to the fallback decision; the headless tier is attempted
\* if available, the call is Failed otherwise, and no HTTP attempt follows the
\* extraction failure.
C11_ExtractionFailureEndsHttpTier ==
  \A f \in Frames : ExtractionFailedOn(f) => EndsHttpTier(f)

\* C11 amended: an extraction failure is recorded in the accumulator; it ends
\* the HTTP tier at once when it is the JavaScript-rendered failure or when it
\* happens on the last HTTP attempt (headless attempted if available, Failed
\* with the extraction error otherwise); any other extraction failure on the
\* first attempt is followed by the delay and a second HTTP attempt.
C11_ExtractionFailureEscalates ==
  \A f \in Frames :
    ExtractionFailedOn(f) =>
      /\ ExtractionFailed(f.ext.reason) \in Range(f.all_errors)
      /\ IF IsJsFailure(f) \/ f.gets = MAX_RETRIES
         THEN /\ EndsHttpTier(f)
              /\ (Returned(f) /\ ~HeadlessAvailable(f)) =>
                   f.error = ExtractionFailed(f.ext.reason)
         ELSE /\ f.pc = "http"
              /\ f.gets = 1 /\ f.attempt = 1
              /\ f.slept = RETRY_DELAY
              /\ ~f.should_try_playwright
              /\ f.pw_calls = 0

\* a JavaScript-rendered page on the first attempt, handed to the headless
\* tier without a second HTTP attempt
C11_Witness ==
  /\ Running /\ ExtractionFailedOn(Top) /\ IsJsFailure(Top)
  /\ Top.gets = 1 /\ Returned(Top) /\ Top.pw_calls = 1

\* the HTTP-tier extraction of the last response of f succeeded on a
\* JS-heavy domain with fewer than 1000 characters or fewer than 200 words
ThinOnJsHeavy(f) ==
  /\ f.ext.ran /\ f.ext.ok
  /\ is_js_heavy_domain(f.url)
  /\ (CharCount(f.ext.content) < JsHeavyMinChars \/ count_words(f.ext.content) < JsHeavyMinWords)

\* C12: on a JS-heavy domain an HTTP-tier extraction that succeeds with fewer
\* than 1000 characters or fewer than 200 words is never returned by the HTTP
\* tier: the headless tier is attempted when available and its outcome is the
\* outcome of the call; the call is Failed when headless is unavailable.
C12_JsHeavyThinEscalates ==
  \A f \in Frames :
    ThinOnJsHeavy(f) =>
      /\ f.should_try_playwright
      /\ f.pc \in {"fallback", "done"}
      /\ f.metadata.fetch_method = "requests" => ~Success(f)
      /\ Returned(f) =>
           IF HeadlessAvailable(f)
           THEN LET pw == fetch_with_playwright(f.url, f.pw)
                IN  /\ f.pw_calls = 1
                    /\ f.ok = pw.ok
                    /\ f.ok => (f.content = pw.content /\ f.metadata.fetch_method = "playwright")
                    /\ ~f.ok => f.error = pw.error
           ELSE /\ f.pw_calls = 0
                /\ ~f.ok
                /\ f.error \in {EJsHeavyThin, EInsufficient(CharCount(f.ext.content))}

\* 1200 characters in 150 words from a JS-heavy domain, with no headless
\* tier to turn to
C12_Witness ==
  /\ Running /\ ThinOnJsHeavy(Top)
  /\ CharCount(Top.ext.content) >= JsHeavyMinChars
  /\ ~HeadlessAvailable(Top) /\ Failed(Top) /\ Top.error = EJsHeavyThin

\* C13: a headless attempt that fails ends the call as Failed with no further
\* HTTP or headless attempt; the returned fetch_errors is the HTTP-tier errors
\* accumulated before it followed by the headless error, and the reported
\* error is the headless error.
C13_HeadlessFailureIsFinal ==
  [][\A i \in 1..Len(stack) :
       i <= Len(stack') =>
         LET f  == stack[i]
             g  == stack'[i]
             pw == fetch_with_playwright(g.url, g.pw)
         IN  /\ (g.pw_calls > f.pw_calls /\ ~pw.ok) =>
                  /\ f.pw_calls = 0 /\ g.pw_calls = 1
                  /\ Failed(g)
                  /\ g.error = pw.error
                  /\ g.metadata.fetch_errors = Append(f.all_errors, pw.error)
                  /\ g.gets = f.gets
             /\ (f.pw_calls = 1 /\ Failed(f)) => g = f]_vars

\* two HTTP attempts without usable content, then a 503 in the browser
C13_Witness ==
  /\ Running /\ Failed(Top) /\ Top.pw_calls = 1 /\ Top.gets = MAX_RETRIES
  /\ Top.error = EPwStatus(503)
  /\ Top.metadata.fetch_errors = Append(SubSeq(Top.all_errors, 1, 2), EPwStatus(503))

\* the original URL an msn.com wrapper carries: its 'url' parameter, else its
\* 'originalUrl' parameter (<<>>: the URL carries none)
OriginalOf(url) ==
  IF url.valid /\ (\E i \in 1..Len(url.netloc) : LowerToken(url.netloc[i]) = "msn.com")
  THEN (IF url.url # <<>> THEN url.url ELSE url.originalUrl)
  ELSE <<>>

\* C14: for an msn.com URL that carries an original URL X in 'url' or
\* 'originalUrl', the call first runs a complete fetch of X. If that fetch
\* succeeds its result is what the call returns and no request is sent to the
\* wrapper; a request to the wrapper (HTTP or headless) is made only after
\* the fetch of X has returned Failed.
C14_UnwrapFirst ==
  [][\A i \in 1..Len(stack) :
       (i <= Len(stack') /\ OriginalOf(stack[i].url) # <<>>) =>
         LET f == stack[i]
             g == stack'[i]
             X == OriginalOf(f.url)[1]
         IN  /\ f.pc = "start" =>
                  \/ g = f
                  \/ /\ g.pc = "await" /\ g.gets = 0 /\ g.pw_calls = 0
                     /\ Len(stack') = i + 1
                     /\ stack'[i + 1].url = X
                     /\ stack'[i + 1].pc = "start"
                     /\ stack'[i + 1].gets = 0 /\ stack'[i + 1].pw_calls = 0
             /\ (f.pc = "await" /\ g.pc # "await") =>
                  /\ Len(stack) = i + 1
                  /\ stack[i + 1].url = X
                  /\ Returned(stack[i + 1])
                  /\ IF stack[i + 1].ok
                     THEN /\ Success(g)
                          /\ g.content = stack[i + 1].content
                          /\ g.metadata = stack[i + 1].metadata
                          /\ g.gets = 0 /\ g.pw_calls = 0
                     ELSE g.pc = "http" /\ g.gets = 0 /\ g.pw_calls = 0
             /\ g.gets > f.gets => f.pc = "http"
             /\ g.pw_calls > f.pw_calls => f.pc = "fallback"
             /\ f.pc = "fallback" => f.gets > 0]_vars

\* a wrapper with the original in 'originalUrl', answered by the fetch of the
\* original without any request to msn.com
C14_Witness ==
  /\ Running /\ Top.url.url = <<>> /\ OriginalOf(Top.url) # <<>>
  /\ Success(Top) /\ Top.gets = 0 /\ Top.pw_calls = 0
  /\ Top.metadata.url = OriginalOf(Top.url)[1]

NotWww(t) == t # "www."

\* the host of a URL with "www." stripped
HostOf(url) == SelectSeq(url.netloc, NotWww)

\* v is reached from the wrapper u by unwrapping one or more times
RECURSIVE Unwraps(_, _)
Unwraps(u, v) ==
  /\ OriginalOf(u) # <<>>
  /\ (OriginalOf(u)[1] = v \/ Unwraps(OriginalOf(u)[1], v))

\* C15 as stated: for every result, Success or Failed, metadata.domain is the
\* host of the url argument of the call, "www." stripped, even when the
\* content was fetched from another URL.
C15_DomainOfArgument ==
  \A f \in Frames :
    (Returned(f) /\ f.url.valid) => f.metadata.domain = HostOf(f.url)

\* C15 amended: metadata.domain is the host, "www." stripped, of metadata.url.
\* That is the url argument on every Failed result and on every URL that is
\* not unwrapped; when an msn.com wrapper is unwrapped and the fetch of the
\* original succeeds, the metadata returned is that fetch's, so url and domain
\* are the original's. A URL that cannot be parsed leaves the domain empty.
C15_DomainOfFetchedUrl ==
  \A f \in Frames :
    Returned(f) =>
      /\ ~f.url.valid => (f.metadata.domain = <<>> /\ f.metadata.url = f.url)
      /\ f.url.valid =>
           /\ f.metadata.domain = HostOf(f.metadata.url)
           /\ \/ f.metadata.url = f.url
              \/ /\ Success(f) /\ f.gets = 0 /\ f.pw_calls = 0
                 /\ Unwraps(f.url, f.metadata.url)
      /\ (Failed(f) \/ OriginalOf(f.url) = <<>>) => f.metadata.url = f.url

\* a wrapper on www.MSN.com answered by the original on example.com
C15_Witness ==
  /\ Running /\ Success(Top)
  /\ HostOf(Top.url) = <<"MSN.com">>
  /\ Top.metadata.domain = <<"example.com">>

\* the navigation of the headless attempt of f returned a response with a status
HeadlessGotStatus(f) ==
  f.pw_calls = 1 /\ f.pw.kind = "response" /\ f.pw.status # NoStatus

\* C16: when a call returns, metadata.http_status is the status of the most
\* recent response any attempt of the call received, HTTP or headless,
\* whether or not that attempt produced the result: after a headless attempt
\* whose navigation returned a status it is that status, and without one it
\* is the status of the last HTTP response.
C16_StatusOfLastResponse ==
  \A f \in Frames :
    Returned(f) =>
      /\ HeadlessGotStatus(f) => f.metadata.http_status = f.pw.status
      /\ (f.pw_calls = 0 /\ f.resp.kind = "response") =>
           f.metadata.http_status = f.resp.status

\* what a call hands back is a triple: the flag with the text, or with an error
IsTriple(f) ==
  \/ f.ok /\ f.content # <<>> /\ f.error = NoErr
  \/ ~f.ok /\ f.content = <<>> /\ f.error # NoErr

\* C17: fetch_article never raises: whatever fault the HTTP request, the
\* parsing, the extraction or the headless tier produces, the call returns a
\* triple, and every fault the call met is an error string in the
\* accumulator it returns (metadata.fetch_errors).
C17_FaultsReturnedInAccumulator ==
  \A f \in Frames :
    Returned(f) =>
      /\ IsTriple(f)
      /\ ~f.url.valid => f.metadata.fetch_errors = <<EFatal>>
      /\ \A k \in 1..Len(f.all_errors) :
           f.all_errors[k] \in Range(f.metadata.fetch_errors)

\* the error strings of the headless tier that no HTTP attempt produces
IsHeadlessError(e) == e.text \in {EPwError.text, EPwNotInstalled.text, EPwStatus(0).text}

\* C18: when playwright cannot be imported the headless tier is never
\* invoked and the call still returns: every call that asked for the
\* headless tier ends Failed, the reported error is the last HTTP-tier error
\* and fetch_errors holds the HTTP-tier errors only.
C18_NoHeadlessWhenUnavailable ==
  ~installed =>
    /\ playwright_available # "True"
    /\ \A f \in Frames :
         /\ f.pw_calls = 0 /\ f.pw = NoOutcome
         /\ f.metadata.fetch_method = "requests"
         /\ (f.should_try_playwright /\ f.pc # "fallback") =>
              /\ Failed(f) /\ IsTriple(f)
              /\ f.error = Last(f.all_errors)
              /\ f.metadata.fetch_errors = f.all_errors
              /\ \A k \in 1..Len(f.all_errors) : ~IsHeadlessError(f.all_errors[k])
              /\ (f.use_playwright_fallback => playwright_available = "False")

\* a JavaScript-rendered page with playwright missing: probed, not launched
C18_Witness ==
  /\ ~installed /\ Running /\ Top.use_playwright_fallback
  /\ ExtractionFailedOn(Top) /\ IsJsFailure(Top)
  /\ Failed(Top) /\ Top.pw_calls = 0 /\ playwright_available = "False"

\* C19: a call made with use_playwright_fallback = False never invokes the
\* headless tier at any point, for any URL, redirect wrappers included:
\* neither the call nor any fetch it starts launches the browser.
C19_FallbackDisabledEverywhere ==
  (Running /\ ~stack[1].use_playwright_fallback) =>
    \A f \in Frames : f.pw_calls = 0

\* the URL is on bloomberg.com
OnBloomberg(url) ==
  url.valid /\ \E i \in 1..Len(url.netloc) : LowerToken(url.netloc[i]) = "bloomberg.com"

\* the partial-content annotation for this text
PartialReason(content) ==
  Err("Bloomberg content too short ({char_count} chars, {word_count} words) - may need manual review",
      CharCount(content), count_words(content))

\* C20 as stated: a call returns with partial_content set, and a reason,
\* exactly when it is a Success for a url argument on bloomberg.com with
\* fewer than 1000 characters of text; the outcome stays Success.
C20_PartialByArgument ==
  \A f \in Frames :
    Returned(f) =>
      /\ f.metadata.partial_content <=>
           (Success(f) /\ OnBloomberg(f.url) /\ CharCount(f.content) < BloombergMinChars)
      /\ f.metadata.partial_content => f.metadata.partial_content_reason # NoErr

\* C20 amended: the URL that counts is metadata.url, the URL the returned
\* text was fetched from: the argument, or the original URL after a
\* successful unwrap of an msn.com wrapper. partial_content is set, with the
\* reason naming the character and word counts, exactly on a Success with
\* fewer than 1000 characters from a bloomberg.com URL; never on Failed.
C20_PartialByFetchedUrl ==
  \A f \in Frames :
    Returned(f) =>
      /\ f.metadata.partial_content <=>
           (Success(f) /\ OnBloomberg(f.metadata.url)
            /\ CharCount(f.content) < BloombergMinChars)
      /\ f.metadata.partial_content_reason =
           (IF f.metadata.partial_content THEN PartialReason(f.content) ELSE NoErr)
      /\ OriginalOf(f.url) = <<>> => f.metadata.url = f.url

\* 702 characters from bloomberg.com, rendered by the browser and flagged
C20_Witness ==
  /\ Running /\ Success(Top) /\ OnBloomberg(Top.url)
  /\ CharCount(Top.content) < BloombergMinChars
  /\ Top.metadata.partial_content
  /\ Top.metadata.partial_content_reason = PartialReason(Top.content)

\* the value the import decides
FlagValue == IF installed THEN "True" ELSE "False"

\* C21: the availability flag is computed lazily, on the first use; once it
\* is true or false it never changes; and whatever the interleaving of
\* concurrent first calls of check_playwright_available, the flag ends at one
\* value, the one the import decides, and every caller is returned that value.
C21_FlagSetOnce ==
  /\ []((\A t \in Threads : probes[t].pc = "idle") => playwright_available = "None")
  /\ [](\A t \in Threads :
          probes[t].pc = "done" =>
            (probes[t].ret = FlagValue /\ playwright_available = FlagValue))
  /\ [][/\ playwright_available # "None" => playwright_available' = playwright_available
        /\ playwright_available' # playwright_available =>
             /\ playwright_available' = FlagValue
             /\ \E t \in Threads : probes[t].pc = "store"]_vars

\* two threads that both found the flag unset, both imported, and both
\* returned
C21_Witness ==
  \E t, u \in Threads :
    /\ t # u
    /\ probes[t].pc = "done" /\ probes[t].seen = "None"
    /\ probes[u].pc = "done" /\ probes[u].seen = "None"
    /\ probes[t].ret = probes[u].ret

\* what fetch_with_playwright did in the headless attempt of f
HeadlessRun(f) == fetch_with_playwright(f.url, f.pw)

\* C22: in fetch_with_playwright, once the browser has been launched it is
\* released (browser.close() is called) on every exit path: after a
\* navigation status of 400 or more, after the rendered DOM is captured, and
\* when any step raises (context creation, page creation, navigation, extra
\* wait, content capture, extraction).
C22_BrowserAlwaysClosed ==
  \A f \in Frames :
    (f.pw_calls = 1 /\ HeadlessRun(f).launched) => HeadlessRun(f).closes >= 1

\* C23: in the headless tier a navigation response with status 400 or more
\* makes fetch_with_playwright fail at once with the error naming that
\* status: no extra wait, no DOM capture, no extraction, the browser closed
\* once, and http_status of its metadata is that status.
C23_ErrorStatusFailsAtOnce ==
  \A f \in Frames :
    (f.pw_calls = 1 /\ f.pw.kind = "response" /\ f.pw.status >= 400) =>
      LET r == HeadlessRun(f)
      IN  /\ ~r.ok
          /\ r.error = EPwStatus(f.pw.status)
          /\ r.metadata.fetch_errors = <<EPwStatus(f.pw.status)>>
          /\ r.metadata.http_status = f.pw.status
          /\ r.did.waited = 0 /\ ~r.did.captured /\ ~r.did.extracted
          /\ r.closes = 1
          /\ r.metadata.title = "" /\ r.metadata.author = <<>>
          /\ Failed(f) /\ f.error = r.error

\* a 404 in the browser for a page whose body would have been extracted
C23_Witness ==
  /\ Running /\ Top.pw_calls = 1 /\ Top.pw = Response(404, "long")
  /\ Failed(Top) /\ Top.error = EPwStatus(404)

\* the <p> elements of the document as parsed
ParagraphCount(doc) == Len(SelectSeq(doc.blocks, IsParagraph))

\* the extractor failed with the JavaScript-rendered reason
JsVerdict == verdict.ran /\ ~verdict.ok /\ verdict.reason.text = RJsRendered(0, 0).text

\* C24: extract_content_from_html fails with the JavaScript-rendered reason
\* exactly when the document, as parsed and before anything is removed, has
\* more than 20 scripts, fewer than 3 paragraphs and under 500 characters of
\* text; the test comes before the 100-character and 200-character/50-word
\* checks, and with 20 scripts, 3 paragraphs or 500 characters it does not fire.
C24_JsDetection ==
  verdict.ran =>
    /\ JsVerdict <=>
         (soup.scripts > 20 /\ ParagraphCount(soup) < 3 /\ TextLen(soup.blocks) < 500)
    /\ JsVerdict => verdict.reason = RJsRendered(soup.scripts, ParagraphCount(soup))

\* 25 scripts, one paragraph and 300 characters of text
C24_Witness ==
  /\ JsVerdict
  /\ soup.scripts = 25 /\ ParagraphCount(soup) = 1 /\ TextLen(soup.blocks) = 300

\* the document after the unwanted elements are removed
Kept(doc) == SelectSeq(doc.blocks, NotJunk)

\* the non-empty paragraphs of the element the i-th selector matches
ContainerText(doc, i) ==
  LET Inside(b) == IsParagraph(b) /\ b.box = i /\ b.c > 0
  IN  SelectSeq(Kept(doc), Inside)

ReachesHundred(doc, i) == SumWords(ContainerText(doc, i)) >= 100

\* all the non-empty paragraphs left in the document
AllParagraphs(doc) ==
  LET NonEmptyP(b) == IsParagraph(b) /\ b.c > 0
  IN  SelectSeq(Kept(doc), NonEmptyP)

\* the body text the claim describes
ExpectedBody(doc) ==
  IF \E i \in 1..Len(content_selectors) : ReachesHundred(doc, i)
  THEN ContainerText(doc, CHOOSE i \in 1..Len(content_selectors) :
                            /\ ReachesHundred(doc, i)
                            /\ \A j \in 1..(i - 1) : ~ReachesHundred(doc, j))
  ELSE AllParagraphs(doc)

\* the extractor got as far as selecting the body text
BodySelected ==
  /\ verdict.ran /\ ~JsVerdict
  /\ verdict.reason.text # RNoContent(0).text

\* C25: the body is the paragraph text of the first container, in the fixed
\* selector order, whose paragraphs total 100 words or more; when no
\* container reaches 100 words it is the non-empty text of all paragraphs of
\* the (cleaned) document, so three paragraphs of 60 words and 200 or more
\* characters outside any container are extracted successfully.
C25_BodySelection ==
  BodySelected =>
    /\ verdict.ok => verdict.content = ExpectedBody(soup)
    /\ ~verdict.ok =>
         verdict.reason \in {RShortChars(CharCount(ExpectedBody(soup))),
                             RShortWords(SumWords(ExpectedBody(soup)))}
    /\ verdict.ok <=>
         (CharCount(ExpectedBody(soup)) >= 200 /\ SumWords(ExpectedBody(soup)) >= 50)

\* three paragraphs, 60 words, no container: the all-paragraphs path
C25_Witness ==
  /\ verdict.ran /\ verdict.ok
  /\ \A i \in 1..Len(soup.blocks) : soup.blocks[i].box = 0
  /\ Len(verdict.content) = 3 /\ SumWords(verdict.content) = 60
  /\ CharCount(verdict.content) >= 200

\* the document passes the JavaScript test and the 100-character check
PassesEarlyChecks(doc) ==
  /\ ~(doc.scripts > 20 /\ ParagraphCount(doc) < 3 /\ TextLen(doc.blocks) < 500)
  /\ TextLen(Kept(doc)) >= 100

\* the selected body text of the document reaches 200 characters and 50 words
BodyIsValid(doc) ==
  CharCount(ExpectedBody(doc)) >= 200 /\ SumWords(ExpectedBody(doc)) >= 50

\* C26: once the JavaScript and 100-character checks have passed, the
\* extraction succeeds if and only if the selected body text has at least
\* 200 characters and at least 50 words, in the HTTP tier and in the headless
\* tier alike; so every text a call returns with Success has at least 200
\* characters and 50 words.
C26_ValidationFloor ==
  \A f \in Frames :
    /\ (f.ext.ran /\ PassesEarlyChecks(DocOf(f.resp.body))) =>
         (f.ext.ok <=> BodyIsValid(DocOf(f.resp.body)))
    /\ (f.pw_calls = 1 /\ HeadlessRun(f).did.extracted /\ PassesEarlyChecks(DocOf(f.pw.body))) =>
         (HeadlessRun(f).ok <=> BodyIsValid(DocOf(f.pw.body)))
    /\ Success(f) => (CharCount(f.content) >= 200 /\ SumWords(f.content) >= 50)

\* exactly 200 characters and 50 words, returned by the headless tier
C26_Witness ==
  /\ Running /\ Success(Top) /\ Top.pw_calls = 1
  /\ CharCount(Top.content) = 200 /\ SumWords(Top.content) = 50

\* the number of URLs nested in a URL, itself included
RECURSIVE UrlSize(_)
UrlSize(u) ==
  1 + (IF u.url = <<>> THEN 0 ELSE UrlSize(u.url[1]))
    + (IF u.originalUrl = <<>> THEN 0 ELSE UrlSize(u.originalUrl[1]))

\* the moves of the state machine of one call
Moves ==
  { <<"start", "await">>, <<"start", "http">>, <<"start", "done">>,
    <<"await", "http">>, <<"await", "done">>,
    <<"http", "http">>, <<"http", "fallback">>, <<"http", "done">>,
    <<"fallback", "done">> }

\* an upper bound on the steps a call still has to take
StepsLeft(f) ==
  CASE f.pc = "start"    -> 8 * UrlSize(f.url)
    [] f.pc = "await"    -> 6
    [] f.pc = "http"     -> 5 - f.gets
    [] f.pc = "fallback" -> 2
    [] OTHER             -> 1

RECURSIVE TotalStepsLeft(_)
TotalStepsLeft(s) == IF s = <<>> THEN 0 ELSE StepsLeft(Head(s)) + TotalStepsLeft(Tail(s))

\* C27: every call ends in Success or Failed: a running call can always take
\* a step, and each step lowers a bound on the steps left, so no call runs
\* forever. For each URL processed there are at most 2 HTTP attempts, then
\* at most one headless attempt, and no HTTP attempt after a headless
\* attempt; the unwrap recursion is finite: the URL of an inner call is a
\* query parameter of its caller's URL and is strictly smaller.
C27_TerminatesAlongStateMachine ==
  /\ [](\A f \in Frames :
          /\ f.gets <= 2 /\ f.pw_calls <= 1
          /\ f.pw_calls = 1 => Returned(f)
          /\ Returned(f) => IsTriple(f))
  /\ [](\A i \in 1..(Len(stack) - 1) :
          /\ stack[i].pc = "await"
          /\ <<stack[i + 1].url>> \in {stack[i].url.url, stack[i].url.originalUrl}
          /\ UrlSize(stack[i + 1].url) < UrlSize(stack[i].url))
  /\ [](Running => ENABLED Proceed)
  /\ [][/\ stack # <<>> =>
             (TotalStepsLeft(stack') < TotalStepsLeft(stack) /\ TotalStepsLeft(stack') >= 0)
        /\ \A i \in 1..Len(stack) :
             i <= Len(stack') =>
               LET f == stack[i]
                   g == stack'[i]
               IN  /\ (g.pc # f.pc \/ g.gets # f.gets) => <<f.pc, g.pc>> \in Moves
                   /\ g.gets \in {f.gets, f.gets + 1}
                   /\ g.gets > f.gets => (f.pc = "http" /\ g.pw_calls = 0)
                   /\ g.pw_calls > f.pw_calls => (f.pc = "fallback" /\ f.gets >= 1)]_vars

\* the fetch of an unwrapped URL after two HTTP attempts and a headless one
C27_Witness ==
  /\ Len(stack) = 2 /\ Returned(Top)
  /\ Top.gets = 2 /\ Top.pw_calls = 1
  /\ UrlSize(Top.url) < UrlSize(stack[1].url)


\* a response whose status the status checks of fetch_article do not name
IsUnexpected(o) ==
  o.kind = "response" /\ o.status \notin {200, 403, 404, 429} /\ o.status < 500

\* C28: an HTTP attempt that receives a status other than 200, 403, 404, 429
\* and 5xx appends the 'Unexpected status' error; the first attempt then
\* sleeps and retries without reading the body; the final attempt goes on
\* with the body as for a 200: an empty body fails with 'Empty response', a
\* paywalled page fails with the paywall error, a page without enough text
\* fails extraction, each a second entry of the accumulator, and a full
\* article is returned as Success of the requests tier.
C28_UnexpectedStatusFallsThrough ==
  [][\A i \in 1..Len(stack) :
       (i <= Len(stack') /\ stack'[i].gets > stack[i].gets /\ IsUnexpected(stack'[i].resp)) =>
         LET f == stack[i]
             g == stack'[i]
             n == Len(f.all_errors)
             added == Len(g.all_errors) - n
         IN  /\ added >= 1
             /\ g.all_errors[n + 1] = EUnexpectedStatus(g.resp.status)
             /\ g.metadata.http_status = g.resp.status
             /\ f.gets = 0 =>
                  /\ g.pc = "http" /\ added = 1
                  /\ g.slept = f.slept + RETRY_DELAY
                  /\ g.parsed = f.parsed /\ ~g.ext.parsed
             /\ f.gets = 1 =>
                  /\ g.resp.body = "" =>
                       /\ Failed(g) /\ g.error = EEmpty
                       /\ added = 2 /\ g.all_errors[n + 2] = EEmpty
                       /\ g.parsed = f.parsed
                  /\ g.resp.body # "" => g.parsed = f.parsed + 1
                  /\ g.resp.body = "paywall" =>
                       /\ Failed(g) /\ g.error.text = EPaywall(0).text
                       /\ added = 2 /\ g.all_errors[n + 2] = g.error
                  /\ g.resp.body = "short" =>
                       /\ ExtractionFailedOn(g) /\ g.pc = "fallback"
                       /\ added = 2
                  /\ g.resp.body = "long" =>
                       /\ Success(g) /\ added = 1
                       /\ g.metadata.fetch_method = "requests"
                       /\ CharCount(g.content) = 1500]_vars

\* a call returned Success from the body of a 401 response on its second attempt
C28_Witness ==
  /\ Running /\ Success(Top)
  /\ Top.resp.kind = "response" /\ Top.resp.status = 401
  /\ Top.gets = 2 /\ Top.metadata.fetch_method = "requests"
  /\ Top.all_errors = <<EUnexpectedStatus(401), EUnexpectedStatus(401)>>

\* the empty body of a 401 response on the second attempt added two entries
C28_WitnessTwoEntries ==
  /\ Running /\ Failed(Top) /\ Top.error = EEmpty
  /\ Top.resp.status = 401 /\ Top.gets = 2
  /\ Len(Top.all_errors) = 3


\* the URL is on a domain of the JS-heavy list
OnJsHeavyDomain(url) ==
  url.valid /\ \E i \in 1..Len(url.netloc), j \in 1..Len(JS_HEAVY_DOMAINS) :
                 LowerToken(url.netloc[i]) = JS_HEAVY_DOMAINS[j]

\* C29 as stated: every Success with fetch_method 'requests' has at least 500
\* characters, and at least 1000 characters and 200 words when the url
\* argument of the call is on a JS-heavy domain; every Success with fewer
\* than 500 characters has fetch_method 'playwright'; partial_content is
\* true only with fetch_method 'playwright'.
C29_RequestsFloorByArgument ==
  \A f \in Frames :
    Success(f) =>
      /\ f.metadata.fetch_method = "requests" =>
           /\ CharCount(f.content) >= 500
           /\ OnJsHeavyDomain(f.url) =>
                (CharCount(f.content) >= 1000 /\ count_words(f.content) >= 200)
      /\ CharCount(f.content) < 500 => f.metadata.fetch_method = "playwright"
      /\ f.metadata.partial_content => f.metadata.fetch_method = "playwright"

\* C29 amended: the URL that counts for the JS-heavy floor is metadata.url,
\* the URL the returned text was fetched from (the argument, unless an
\* msn.com wrapper was unwrapped successfully). Every Success with
\* fetch_method 'requests' has at least 500 characters, and at least 1000
\* characters and 200 words when metadata.url is on a JS-heavy domain; every
\* shorter Success has fetch_method 'playwright', which a call that did not
\* unwrap sets exactly when its own headless attempt produced the text;
\* partial_content is true only with fetch_method 'playwright'.
C29_RequestsFloorByFetchedUrl ==
  \A f \in Frames :
    Success(f) =>
      /\ f.metadata.fetch_method \in {"requests", "playwright"}
      /\ f.metadata.fetch_method = "requests" =>
           /\ CharCount(f.content) >= 500
           /\ OnJsHeavyDomain(f.metadata.url) =>
                (CharCount(f.content) >= 1000 /\ count_words(f.content) >= 200)
      /\ CharCount(f.content) < 500 => f.metadata.fetch_method = "playwright"
      /\ f.metadata.partial_content => f.metadata.fetch_method = "playwright"
      /\ f.metadata.url = f.url =>
           (f.metadata.fetch_method = "playwright" <=> f.pw_calls = 1)

\* 1500 characters from bloomberg.com returned by the requests tier
C29_Witness ==
  /\ Running /\ Success(Top) /\ Top.metadata.fetch_method = "requests"
  /\ Top.metadata.url = Top.url /\ OnJsHeavyDomain(Top.url) /\ OnBloomberg(Top.url)
  /\ CharCount(Top.content) >= 1000 /\ ~Top.metadata.partial_content


\* the metadata and the accumulator of f are those of a call that has made no
\* request yet
IsFresh(f) ==
  /\ f.all_errors = <<>> /\ f.metadata.fetch_errors = <<>>
  /\ f.metadata.http_status = NoStatus
  /\ f.metadata.title = "" /\ f.metadata.author = <<>>
  /\ f.metadata.url = f.url /\ f.metadata.fetch_method = "requests"
  /\ ~f.metadata.partial_content

\* C30: when the fetch of the unwrapped original URL returns Failed, the
\* call goes on to the wrapper URL with fresh metadata and an empty error
\* accumulator, whatever errors, status, title and author the failed fetch
\* returned; what the wrapper fetch then returns comes from its own attempts:
\* no errors and no status before its first request, no title and no author
\* before its first extraction.
C30_WrapperStartsFresh ==
  /\ [][\A i \in 1..(Len(stack) - 1) :
          (Len(stack') = i /\ i = Len(stack) - 1 /\ Failed(stack[i + 1])) =>
            LET g == stack'[i]
            IN  /\ g.pc = "http" /\ g.gets = 0 /\ g.pw_calls = 0 /\ g.attempt = 0
                /\ IsFresh(g)
                /\ g.metadata.domain = HostOf(g.url)]_vars
  /\ [](\A f \in Frames :
          (OriginalOf(f.url) # <<>> /\ f.pc \in {"http", "fallback", "done"}
           /\ f.metadata.url = f.url) =>
            /\ (f.gets = 0 /\ f.pw_calls = 0) => IsFresh(f)
            /\ (f.extracted = 0 /\ f.pw_calls = 0) =>
                 (f.metadata.title = "" /\ f.metadata.author = <<>>)
            /\ Len(f.all_errors) <= 2 * f.gets + f.pw_calls)

\* the fetch of the original failed with errors and a status; the wrapper
\* then got a 404 on its first request and returns that error alone
C30_Witness ==
  /\ Len(stack) = 1 /\ Failed(Top) /\ OriginalOf(Top.url) # <<>>
  /\ Top.metadata.url = Top.url
  /\ Top.gets = 1 /\ Top.metadata.http_status = 404
  /\ Len(Top.all_errors) = 1 /\ Top.metadata.title = ""

=============================================================================
